---- MODULE Spec2Model ----
(***************************************************************************)
(* Frequency-table models of the arithmetic coder (entropy/ari/table.rs):  *)
(* Model, SumProxy, ByteEncoder and ByteDecoder.                           *)
(*                                                                         *)
(* Symbol values are 0-based as in the source; table[value] of the source  *)
(* is table[value + 1] here, because TLA+ sequences start at 1.            *)
(* A panic (failed assert!, index out of bounds, arithmetic overflow when  *)
(* overflow checks are compiled in) is an operation that does not return:  *)
(* operators report it with ok = FALSE.                                    *)
(* Border (super::Border) is taken wide enough for every value that        *)
(* occurs here; only the 16-bit Frequency is given its width.              *)
(***************************************************************************)
EXTENDS Integers, Sequences, FiniteSets, TLC

VARIABLES
    model,            \* Spec: the Model under test
    pc,               \* Spec: "new_custom" | "ready" | "panic"
    overflow_checks,  \* Spec: TRUE = build panics on overflow, FALSE = wraps
    ever,             \* Spec: symbols non-zero at some point since new_custom returned
    steps,            \* Spec: number of mutating calls made so far
    ret,              \* Spec: what the last call returned
    first,            \* SpecProxy: the Model borrowed as SumProxy.first
    second,           \* SpecProxy: the Model borrowed as SumProxy.second
    proxy,            \* SpecProxy: the SumProxy's weights and shift, or NoProxy
    ppc,              \* SpecProxy: "models" | "proxy" | "panic"
    psteps,           \* SpecProxy: number of Model updates made so far
    pret,             \* SpecProxy: what the last SumProxy call returned
    enc_freq,         \* SpecByte: ByteEncoder.freq
    enc_state,        \* SpecByte: "open" | "finished" | "panic" (ByteEncoder)
    wire,             \* SpecByte: the intervals the range encoder was given
    written,          \* SpecByte: the bytes encoded so far, in order
    enc_hist,         \* SpecByte: enc_hist[k + 1] = ByteEncoder.freq after k bytes
    write_ret,        \* SpecByte: what the last write returned
    finish_ret,       \* SpecByte: what finish did and returned
    dec_freq,         \* SpecByte: ByteDecoder.freq
    is_eof,           \* SpecByte: ByteDecoder.is_eof
    dec_state,        \* SpecByte: "open" | "panic" (ByteDecoder)
    rpos,             \* SpecByte: index in wire of the next symbol to decode
    decoded,          \* SpecByte: the bytes decoded and adapted for so far
    output,           \* SpecByte: the bytes reads have reported to the caller
    read_ret,         \* SpecByte: what the last read did and returned
    eof_sets          \* SpecByte: how often read has set is_eof

modelVars == <<model, pc, overflow_checks, ever, steps, ret>>

proxyVars == <<first, second, proxy, ppc, psteps, pret>>

encVars == <<enc_freq, enc_state, wire, written, enc_hist, write_ret, finish_ret>>

decVars == <<dec_freq, is_eof, dec_state, rpos, decoded, output, read_ret, eof_sets>>

byteVars == <<enc_freq, enc_state, wire, written, enc_hist, write_ret, finish_ret,
              dec_freq, is_eof, dec_state, rpos, decoded, output, read_ret, eof_sets>>

vars == <<model, pc, overflow_checks, ever, steps, ret,
          first, second, proxy, ppc, psteps, pret,
          enc_freq, enc_state, wire, written, enc_hist, write_ret, finish_ret,
          dec_freq, is_eof, dec_state, rpos, decoded, output, read_ret, eof_sets>>

-----------------------------------------------------------------------------
(* Bounds and input sets *)

MaxSteps == 2
MaxOffset == 2
MaxProxySteps == 1
MaxProxyOffset == 8

\* pub type Frequency = u16
FrequencyBits == 16
FrequencyMod == 2^FrequencyBits

\* the (num_values, fn_init) pairs tried, as the table fn_init produces:
\* flat ones (new_flat), skewed ones, ones with zeros, ones at the top of
\* the Frequency type
Initializers ==
    { <<1, 1>>, <<1, 1, 1>>, <<1, 1, 1, 1>>,
      <<5, 3, 0, 1>>, <<1, 1, 0, 0>>, <<0, 7, 0>>,
      <<FrequencyMod - 1, 1>>, <<FrequencyMod - 1, FrequencyMod - 1, 0>>,
      <<40000, 30000, 1>> }
ThresholdSet == {3, 8, 1000, 2^17}
\* the (add_log, add_const) pairs tried; <<10, 1>> is what the byte adapters use
UpdateArgs == {<<10, 1>>, <<0, 1>>, <<0, FrequencyMod>>}

-----------------------------------------------------------------------------
(* Arithmetic helpers *)

Shr(x, n) == x \div (2^n)

Min(a, b) == IF a < b THEN a ELSE b

Max(a, b) == IF a > b THEN a ELSE b

\* t[a] + ... + t[b]; the index range is split in halves so that a table
\* of a few hundred entries is summed by a shallow recursion
RECURSIVE RangeSum(_, _, _)
RangeSum(t, a, b) ==
    IF a > b THEN 0
    ELSE IF a = b THEN t[a]
    ELSE LET mid == (a + b) \div 2
         IN  RangeSum(t, a, mid) + RangeSum(t, mid + 1, b)

\* freq.iter().fold(0 as Border, |u,&f| u+(f as Border))
SumTable(t) == RangeSum(t, 1, Len(t))

\* table[..value].iter().fold(0, |u,&f| u+(f as Border))
PrefixSum(t, value) == RangeSum(t, 1, value)

NonZero(t) == {i \in 1..Len(t) : t[i] # 0}

-----------------------------------------------------------------------------
(* Model *)

MkModel(total, table, threshold, shift) ==
    [total |-> total, table |-> table, cut_threshold |-> threshold, cut_shift |-> shift]

\* One element of downscale's loop: *freq = (*freq+roundup) >> self.cut_shift,
\* in Frequency arithmetic.
DownscaleFreq(freq, cut_shift) ==
    LET roundup == 2^cut_shift - 1
    IN  Shr((freq + roundup) % FrequencyMod, cut_shift)

\* *freq+roundup does not fit the Frequency type
DownscaleOverflows(m) ==
    \E i \in 1..Len(m.table) : m.table[i] + (2^m.cut_shift - 1) >= FrequencyMod

\* With overflow checks the loop stops at the first entry whose *freq+roundup
\* overflows: self.total was set to 0 and counts the entries already halved.
downscale(m, checks) ==
    LET t == [i \in 1..Len(m.table) |-> DownscaleFreq(m.table[i], m.cut_shift)]
        k == IF DownscaleOverflows(m)
             THEN CHOOSE i \in 1..Len(m.table) :
                      /\ m.table[i] + (2^m.cut_shift - 1) >= FrequencyMod
                      /\ \A j \in 1..(i - 1) :
                             m.table[j] + (2^m.cut_shift - 1) < FrequencyMod
             ELSE 0
        p == [i \in 1..Len(m.table) |-> IF i < k THEN t[i] ELSE m.table[i]]
    IN  IF checks /\ DownscaleOverflows(m)
        THEN [ok |-> FALSE,
              m |-> [m EXCEPT !.table = p, !.total = RangeSum(p, 1, k - 1)]]
        ELSE [ok |-> TRUE, m |-> [m EXCEPT !.table = t, !.total = SumTable(t)]]

\* self.table[value] += add as Frequency
AddFreq(freq, add) == (freq + (add % FrequencyMod)) % FrequencyMod

AddFreqOverflows(freq, add) == freq + (add % FrequencyMod) >= FrequencyMod

\* update with its assertion on add placed after the two additions
update_GuardLate(m, value, add_log, add_const, checks) ==
    LET add == Shr(m.total, add_log) + add_const
        m1  == [m EXCEPT !.table[value + 1] = AddFreq(m.table[value + 1], add),
                         !.total = m.total + add]
        d   == downscale(m1, checks)
    IN  IF checks /\ AddFreqOverflows(m.table[value + 1], add)
        THEN [ok |-> FALSE, m |-> m, why |-> "overflow"]
        ELSE IF ~(add < 2 * m.cut_threshold)
             THEN [ok |-> FALSE, m |-> m1, why |-> "guard"]
        ELSE IF m1.total >= m1.cut_threshold
             THEN IF ~d.ok
                  THEN [ok |-> FALSE, m |-> d.m, why |-> "overflow"]
                  ELSE IF d.m.total < d.m.cut_threshold
                       THEN [ok |-> TRUE, m |-> d.m, why |-> "none"]
                       ELSE [ok |-> FALSE, m |-> d.m, why |-> "assert"]
        ELSE [ok |-> TRUE, m |-> m1, why |-> "none"]

\* why names the panic, if any: "guard" is the assertion on add, "overflow"
\* an arithmetic overflow caught by the build's overflow checks, "assert" the
\* assertion after the downscale. m is the Model as the call leaves it.
update(m, value, add_log, add_const, checks) ==
    LET add == Shr(m.total, add_log) + add_const
        m1  == [m EXCEPT !.table[value + 1] = AddFreq(m.table[value + 1], add),
                         !.total = m.total + add]
        d   == downscale(m1, checks)
    IN  IF ~(add < 2 * m.cut_threshold)
        THEN [ok |-> FALSE, m |-> m, why |-> "guard"]
        ELSE IF checks /\ AddFreqOverflows(m.table[value + 1], add)
             THEN [ok |-> FALSE, m |-> m, why |-> "overflow"]
        ELSE IF m1.total >= m1.cut_threshold
             THEN IF ~d.ok
                  THEN [ok |-> FALSE, m |-> d.m, why |-> "overflow"]
                  ELSE IF d.m.total < d.m.cut_threshold
                       THEN [ok |-> TRUE, m |-> d.m, why |-> "none"]
                       ELSE [ok |-> FALSE, m |-> d.m, why |-> "assert"]
        ELSE [ok |-> TRUE, m |-> m1, why |-> "none"]

reset_flat(m) ==
    [m EXCEPT !.table = [i \in 1..Len(m.table) |-> 1], !.total = Len(m.table)]

get_frequencies(m) == m.table

get_range(m, value) ==
    LET lo == PrefixSum(m.table, value)
    IN  <<lo, lo + m.table[value + 1]>>

NoFind == [ok |-> FALSE, value |-> 0, lo |-> 0, hi |-> 0]

\* FindScan with the loop test written hi < offset
RECURSIVE FindScan_Strict(_, _, _, _, _)
FindScan_Strict(t, a, b, lo, offset) ==
    IF a = b
    THEN LET hi == lo + t[a + 1]
         IN  IF hi < offset
             THEN [found |-> FALSE, value |-> a + 1, lo |-> hi, hi |-> hi]
             ELSE [found |-> TRUE, value |-> a, lo |-> lo, hi |-> hi]
    ELSE LET mid  == (a + b) \div 2
             left == FindScan_Strict(t, a, mid, lo, offset)
         IN  IF left.found THEN left
             ELSE FindScan_Strict(t, mid + 1, b, left.lo, offset)

\* while {hi=lo+(self.table[value] as Border); hi} <= offset { lo = hi; value += 1; }
\* The iterations for value = a .. b, in order, entered with lo; found = FALSE
\* means the loop is still running after value b, with lo as returned. The
\* index range is split in halves only to keep the recursion shallow.
RECURSIVE FindScan(_, _, _, _, _)
FindScan(t, a, b, lo, offset) ==
    IF a = b
    THEN LET hi == lo + t[a + 1]
         IN  IF hi <= offset
             THEN [found |-> FALSE, value |-> a + 1, lo |-> hi, hi |-> hi]
             ELSE [found |-> TRUE, value |-> a, lo |-> lo, hi |-> hi]
    ELSE LET mid  == (a + b) \div 2
             left == FindScan(t, a, mid, lo, offset)
         IN  IF left.found THEN left ELSE FindScan(t, mid + 1, b, left.lo, offset)

\* the whole loop; running past the last entry is an index-out-of-bounds panic
FindLoop(t, offset) ==
    LET r == FindScan(t, 0, Len(t) - 1, 0, offset)
    IN  IF Len(t) = 0 \/ ~r.found THEN NoFind
        ELSE [ok |-> TRUE, value |-> r.value, lo |-> r.lo, hi |-> r.hi]

find_value(m, offset) ==
    IF ~(offset < m.total) THEN NoFind ELSE FindLoop(m.table, offset)

get_denominator(m) == m.total

-----------------------------------------------------------------------------
(* Spec: one Model, built by new_custom / new_flat and then used through   *)
(* its public operations.                                                  *)

NoRet == [op |-> "none", arg |-> 0, val |-> <<>>, why |-> "none"]

NoProxy == [w_first |-> 0, w_second |-> 0, w_shift |-> 0]

ProxyIdle ==
    /\ first = MkModel(0, <<>>, 0, 1)
    /\ second = MkModel(0, <<>>, 0, 1)
    /\ proxy = NoProxy
    /\ ppc = "idle"
    /\ psteps = 0
    /\ pret = NoRet

ModelIdle ==
    /\ model = MkModel(0, <<>>, 0, 1)
    /\ pc = "idle"
    /\ overflow_checks = FALSE
    /\ ever = {}
    /\ steps = 0
    /\ ret = NoRet

\* buf is the argument, at the index of the byte whose encode failed (-1:
\* none), calls the number of encode calls made
NoWrite == [called |-> FALSE, ok |-> TRUE, n |-> 0, len |-> 0,
            buf |-> <<>>, at |-> -1, calls |-> 0]

NoFinish == [called |-> FALSE, encode_calls |-> 0, encode_err |-> FALSE,
             finish_calls |-> 0, finish_err |-> FALSE, err |-> FALSE]

NoRead == [called |-> FALSE, eof_before |-> FALSE, len |-> 0, ok |-> TRUE, n |-> 0,
           calls |-> 0, dst |-> <<>>]

ByteIdle ==
    /\ enc_freq = MkModel(0, <<>>, 0, 1)
    /\ enc_state = "idle"
    /\ wire = <<>>
    /\ written = <<>>
    /\ enc_hist = <<>>
    /\ write_ret = NoWrite
    /\ finish_ret = NoFinish
    /\ dec_freq = MkModel(0, <<>>, 0, 1)
    /\ is_eof = FALSE
    /\ dec_state = "idle"
    /\ rpos = 1
    /\ decoded = <<>>
    /\ output = <<>>
    /\ read_ret = NoRead
    /\ eof_sets = 0

\* new_custom up to its loop: the table is fn_init evaluated per index
InitModel ==
    /\ \E freq \in Initializers, threshold \in ThresholdSet :
         model = MkModel(SumTable(freq), freq, threshold, 1)
    /\ pc = "new_custom"
    /\ overflow_checks \in BOOLEAN
    /\ ever = NonZero(model.table)
    /\ steps = 0
    /\ ret = NoRet

Init == InitModel /\ ProxyIdle /\ ByteIdle

\* while ft.total >= threshold { ft.downscale(); }   one iteration, or the exit
NewCustomLoop ==
    /\ pc = "new_custom"
    /\ IF model.total >= model.cut_threshold
       THEN LET d == downscale(model, overflow_checks)
            IN  /\ d.m # model \/ ~d.ok
                /\ model' = d.m
                /\ pc' = IF d.ok THEN "new_custom" ELSE "panic"
       ELSE /\ model' = model
            /\ pc' = "ready"
    /\ ever' = NonZero(model'.table)
    /\ ret' = NoRet
    /\ UNCHANGED <<overflow_checks, steps>>
    /\ UNCHANGED <<proxyVars, byteVars>>

\* the loop of new_custom when downscale no longer changes the table
NewCustomSpin ==
    /\ pc = "new_custom"
    /\ model.total >= model.cut_threshold
    /\ LET d == downscale(model, overflow_checks) IN d.ok /\ d.m = model
    /\ UNCHANGED vars

Update(value, add_log, add_const) ==
    /\ pc = "ready"
    /\ steps < MaxSteps
    /\ LET u == update(model, value, add_log, add_const, overflow_checks)
       IN  /\ model' = u.m
           /\ pc' = IF u.ok THEN "ready" ELSE "panic"
    /\ ever' = ever \cup NonZero(model'.table)
    /\ steps' = steps + 1
    /\ ret' = [op |-> "update", arg |-> value, val |-> <<add_log, add_const>>,
               why |-> update(model, value, add_log, add_const, overflow_checks).why]
    /\ UNCHANGED overflow_checks
    /\ UNCHANGED <<proxyVars, byteVars>>

Downscale ==
    /\ pc = "ready"
    /\ steps < MaxSteps
    /\ LET d == downscale(model, overflow_checks)
       IN  /\ model' = d.m
           /\ pc' = IF d.ok THEN "ready" ELSE "panic"
    /\ ever' = ever \cup NonZero(model'.table)
    /\ steps' = steps + 1
    /\ ret' = [op |-> "downscale", arg |-> 0, val |-> <<>>,
               why |-> IF downscale(model, overflow_checks).ok
                       THEN "none" ELSE "overflow"]
    /\ UNCHANGED overflow_checks
    /\ UNCHANGED <<proxyVars, byteVars>>

ResetFlat ==
    /\ pc = "ready"
    /\ steps < MaxSteps
    /\ model' = reset_flat(model)
    /\ ever' = ever \cup NonZero(model'.table)
    /\ steps' = steps + 1
    /\ ret' = [op |-> "reset_flat", arg |-> 0, val |-> <<>>, why |-> "none"]
    /\ UNCHANGED <<pc, overflow_checks>>
    /\ UNCHANGED <<proxyVars, byteVars>>

GetRange(value) ==
    /\ pc = "ready"
    /\ ret' = [op |-> "get_range", arg |-> value, val |-> get_range(model, value),
               why |-> "none"]
    /\ UNCHANGED <<model, pc, overflow_checks, ever, steps>>
    /\ UNCHANGED <<proxyVars, byteVars>>

\* offsets near both ends of [0, total), and total itself
Offsets(total) ==
    (0..Min(total, MaxOffset)) \cup (Max(0, total - MaxOffset)..total)

FindValue(offset) ==
    /\ pc = "ready"
    /\ LET f == find_value(model, offset)
       IN  /\ ret' = [op |-> "find_value", arg |-> offset,
                      val |-> IF f.ok THEN <<f.value, f.lo, f.hi>> ELSE <<>>,
                      why |-> IF f.ok THEN "none" ELSE "assert"]
           /\ pc' = IF f.ok THEN "ready" ELSE "panic"
    /\ UNCHANGED <<model, overflow_checks, ever, steps>>
    /\ UNCHANGED <<proxyVars, byteVars>>

GetDenominator ==
    /\ pc = "ready"
    /\ ret' = [op |-> "get_denominator", arg |-> 0, val |-> <<get_denominator(model)>>,
               why |-> "none"]
    /\ UNCHANGED <<model, pc, overflow_checks, ever, steps>>
    /\ UNCHANGED <<proxyVars, byteVars>>

Next ==
    \/ NewCustomLoop
    \/ NewCustomSpin
    \/ \E value \in 0..(Len(model.table) - 1), a \in UpdateArgs :
          Update(value, a[1], a[2])
    \/ Downscale
    \/ ResetFlat
    \/ \E value \in 0..(Len(model.table) - 1) : GetRange(value)
    \/ \E offset \in Offsets(model.total) : FindValue(offset)
    \/ GetDenominator

Spec == Init /\ [][Next]_vars

-----------------------------------------------------------------------------
(* Properties of Model, checked under Spec *)

Returned == pc = "ready"

\* C2: exact inverse on a plain Model. In every state a Model can reach, for
\* every offset in [0, total), find_value(offset) returns (v, lo, hi) with
\* lo <= offset < hi and get_range(v) = (lo, hi).
C2_ExactInverse ==
    (ret.op = "find_value" /\ ret.arg < model.total) =>
        /\ Returned
        /\ Len(ret.val) = 3
        /\ ret.val[1] < Len(model.table)
        /\ ret.val[2] <= ret.arg
        /\ ret.arg < ret.val[3]
        /\ get_range(model, ret.val[1]) = <<ret.val[2], ret.val[3]>>

\* C4: sum invariant. After construction and any sequence of update,
\* downscale and reset_flat calls, total equals the sum of the table entries.
C4_SumInvariant ==
    Returned => model.total = SumTable(model.table)

\* C5: threshold invariant. After every public Model operation that
\* returns, total < cut_threshold.
C5_ThresholdInvariant ==
    Returned => model.total < model.cut_threshold

\* C6: partition law on a plain Model. Consecutive ranges touch, the first
\* range starts at 0 and the last range ends at get_denominator().
C6_PartitionLaw ==
    Returned =>
        LET n == Len(model.table)
        IN  /\ \A v \in 0..(n - 2) :
                 get_range(model, v)[2] = get_range(model, v + 1)[1]
            /\ get_range(model, 0)[1] = 0
            /\ get_range(model, n - 1)[2] = get_denominator(model)

\* C10: reachability. After any sequence of update and downscale calls,
\* every table entry that was non-zero at some earlier point is non-zero.
C10_Reachability ==
    Returned => \A i \in ever : model.table[i] # 0

\* a step of Spec that is a call of update
UpdateStep == pc = "ready" /\ steps' = steps + 1 /\ ret'.op = "update"

\* C11: self-healing rescale. From a Model with total < cut_threshold, an
\* update whose increment passes the guard never fails the assertion that
\* follows its downscale: one downscale brings total below cut_threshold.
C11_SelfHealingRescale ==
    [][(UpdateStep /\ model.total < model.cut_threshold /\ ret'.why # "guard")
           => ret'.why # "assert"]_vars

\* C12: constructor termination. new_custom/new_flat finishes its
\* repeated-downscale loop and returns a Model with total < cut_threshold.
\* The loop is deterministic, so it finishes only if no iteration leaves the
\* Model as it found it while the loop condition holds; and the Model
\* returned has total < cut_threshold.
C12_ConstructorTerminates ==
    /\ (pc = "new_custom" /\ model.total >= model.cut_threshold) =>
           LET d == downscale(model, overflow_checks)
           IN  ~(d.ok /\ d.m = model)
    /\ (pc = "ready" /\ steps = 0) => model.total < model.cut_threshold

\* let add = (self.total>>add_log) + add_const, for the call recorded in r
Increment(m, r) == Shr(m.total, r.val[1]) + r.val[2]

\* C13: plain update without rescale. When the increment passes the guard
\* and total + increment < cut_threshold, update returns, having added
\* exactly the increment to table[value] and to total, and leaves the other
\* entries, cut_threshold and cut_shift as they were.
C13_PlainUpdate ==
    [][(/\ UpdateStep
        /\ ret'.why # "guard"
        /\ model.total + Increment(model, ret') < model.cut_threshold)
           => /\ pc' = "ready"
              /\ model'.table =
                     [model.table EXCEPT ![ret'.arg + 1] = @ + Increment(model, ret')]
              /\ model'.total = model.total + Increment(model, ret')
              /\ model'.cut_threshold = model.cut_threshold
              /\ model'.cut_shift = model.cut_shift]_vars

\* C14: guard violation. If the increment is not smaller than
\* 2 * cut_threshold, update panics on its first assertion and the Model is
\* exactly as it was before the call.
C14_GuardViolation ==
    [][(UpdateStep /\ ~(Increment(model, ret') < 2 * model.cut_threshold))
           => /\ pc' = "panic"
              /\ ret'.why = "guard"
              /\ model' = model]_vars

\* an update of a consistent Model has just failed its guard
C14_Witness ==
    /\ pc = "panic"
    /\ ret.op = "update"
    /\ ret.why = "guard"
    /\ ~(Increment(model, ret) < 2 * model.cut_threshold)
    /\ model.total = SumTable(model.table)

-----------------------------------------------------------------------------
(* SumProxy *)

\* ((wa*lo0 + wb*lo1)>>ws, (wa*hi0 + wb*hi1)>>ws)
SumProxy_get_range(p, fa, fb, value) ==
    LET r0 == get_range(fa, value)
        r1 == get_range(fb, value)
    IN  << Shr(p.w_first * r0[1] + p.w_second * r1[1], p.w_shift),
           Shr(p.w_first * r0[2] + p.w_second * r1[2], p.w_shift) >>

SumProxy_get_denominator(p, fa, fb) ==
    Shr(p.w_first * get_denominator(fa) + p.w_second * get_denominator(fb), p.w_shift)

\* hi = lo + (wa*A[value] + wb*B[value]) >> ws; in Rust + binds tighter than >>,
\* so the shift applies to the whole sum lo + (...)
RECURSIVE SumProxyFindLoop(_, _, _, _, _, _)
SumProxyFindLoop(p, fa, fb, value, lo, offset) ==
    IF value >= Len(get_frequencies(fa)) \/ value >= Len(get_frequencies(fb))
    THEN NoFind
    ELSE LET hi == Shr(lo + (p.w_first * get_frequencies(fa)[value + 1]
                             + p.w_second * get_frequencies(fb)[value + 1]),
                       p.w_shift)
         IN  IF hi <= offset
             THEN SumProxyFindLoop(p, fa, fb, value + 1, hi, offset)
             ELSE [ok |-> TRUE, value |-> value, lo |-> lo, hi |-> hi]

SumProxy_find_value(p, fa, fb, offset) ==
    IF ~(offset < SumProxy_get_denominator(p, fa, fb))
    THEN NoFind
    ELSE SumProxyFindLoop(p, fa, fb, 0, 0, offset)

-----------------------------------------------------------------------------
(* SpecProxy: two Models owned by a caller, who adapts them and reads them *)
(* through SumProxy values.                                                *)

ProxyTables == { <<1, 1>>, <<1, 2>>, <<3, 0>>, <<2, 5>>, <<1, 1, 1>>, <<0, 4, 1>> }
WeightSet == {0, 1, 3}
ShiftSet == {0, 1, 2}
\* the thresholds of the two Models: one with which every increment fits a
\* Frequency, and one above the range of a Frequency
ProxyThresholds == {2^12, 2^17}

\* two Models as new_custom returns them
InitProxy ==
    /\ ModelIdle
    /\ ByteIdle
    /\ \E ta \in ProxyTables, tb \in ProxyTables, threshold \in ProxyThresholds :
         /\ first = MkModel(SumTable(ta), ta, threshold, 1)
         /\ second = MkModel(SumTable(tb), tb, threshold, 1)
    /\ proxy = NoProxy
    /\ ppc = "models"
    /\ psteps = 0
    /\ pret = NoRet

\* SumProxy::new
SumProxyNew(wa, wb, shift) ==
    /\ ppc = "models"
    /\ IF Len(get_frequencies(first)) = Len(get_frequencies(second))
       THEN /\ proxy' = [w_first |-> wa, w_second |-> wb, w_shift |-> shift]
            /\ ppc' = "proxy"
       ELSE /\ proxy' = proxy
            /\ ppc' = "panic"
    /\ pret' = NoRet
    /\ UNCHANGED <<first, second, psteps>>
    /\ UNCHANGED <<modelVars, byteVars>>

\* the SumProxy goes out of scope, which ends its borrows
SumProxyDrop ==
    /\ ppc = "proxy"
    /\ proxy' = NoProxy
    /\ ppc' = "models"
    /\ pret' = NoRet
    /\ UNCHANGED <<first, second, psteps>>
    /\ UNCHANGED <<modelVars, byteVars>>

\* the caller adapts one of its Models while no SumProxy borrows it
ProxyModelUpdate(which, value, add_log, add_const) ==
    /\ ppc = "models"
    /\ psteps < MaxProxySteps
    /\ LET m == IF which = 1 THEN first ELSE second
           u == update(m, value, add_log, add_const, TRUE)
       IN  /\ value < Len(m.table)
           /\ first' = IF which = 1 THEN u.m ELSE first
           /\ second' = IF which = 1 THEN second ELSE u.m
           /\ ppc' = IF u.ok THEN "models" ELSE "panic"
    /\ psteps' = psteps + 1
    /\ pret' = NoRet
    /\ UNCHANGED proxy
    /\ UNCHANGED <<modelVars, byteVars>>

ProxyGetRange(value) ==
    /\ ppc = "proxy"
    /\ value < Len(first.table)
    /\ pret' = [op |-> "get_range", arg |-> value,
                val |-> SumProxy_get_range(proxy, first, second, value)]
    /\ UNCHANGED <<first, second, proxy, ppc, psteps>>
    /\ UNCHANGED <<modelVars, byteVars>>

ProxyFindValue(offset) ==
    /\ ppc = "proxy"
    /\ LET f == SumProxy_find_value(proxy, first, second, offset)
       IN  /\ pret' = [op |-> "find_value", arg |-> offset,
                       val |-> IF f.ok THEN <<f.value, f.lo, f.hi>> ELSE <<>>]
           /\ ppc' = IF f.ok THEN "proxy" ELSE "panic"
    /\ UNCHANGED <<first, second, proxy, psteps>>
    /\ UNCHANGED <<modelVars, byteVars>>

ProxyGetDenominator ==
    /\ ppc = "proxy"
    /\ pret' = [op |-> "get_denominator", arg |-> 0,
                val |-> <<SumProxy_get_denominator(proxy, first, second)>>]
    /\ UNCHANGED <<first, second, proxy, ppc, psteps>>
    /\ UNCHANGED <<modelVars, byteVars>>

\* the offsets asked for: the low ones, and those next to the denominator
ProxyOffsets(total) ==
    (0..Min(total, MaxProxyOffset)) \cup (Max(0, total - MaxOffset)..total)

NextProxy ==
    \/ \E wa \in WeightSet, wb \in WeightSet, shift \in ShiftSet :
          SumProxyNew(wa, wb, shift)
    \/ SumProxyDrop
    \/ \E which \in {1, 2}, value \in 0..2, a \in UpdateArgs :
          ProxyModelUpdate(which, value, a[1], a[2])
    \/ \E value \in 0..2 : ProxyGetRange(value)
    \/ \E offset \in ProxyOffsets(SumProxy_get_denominator(proxy, first, second)) :
          ProxyFindValue(offset)
    \/ ProxyGetDenominator

SpecProxy == InitProxy /\ [][NextProxy]_vars

-----------------------------------------------------------------------------
(* Properties of SumProxy, checked under SpecProxy *)

\* C3: blended-model consistency. For every offset in [0, get_denominator()),
\* SumProxy's find_value returns (v, lo, hi) with v inside the alphabet,
\* lo <= offset < hi and (lo, hi) = SumProxy's get_range(v).
C3_BlendedConsistency ==
    (pret.op = "find_value"
        /\ pret.arg < SumProxy_get_denominator(proxy, first, second)) =>
        /\ ppc = "proxy"
        /\ Len(pret.val) = 3
        /\ pret.val[1] < Len(first.table)
        /\ pret.val[2] <= pret.arg
        /\ pret.arg < pret.val[3]
        /\ SumProxy_get_range(proxy, first, second, pret.val[1])
              = <<pret.val[2], pret.val[3]>>

\* C17: partition law on SumProxy. Over two equal-sized Models and any
\* weights and shift, get_range(v).hi = get_range(v+1).lo for consecutive
\* symbols, get_range(0).lo = 0 and get_range(last).hi = get_denominator().
C17_ProxyPartition ==
    ppc = "proxy" =>
        LET n == Len(get_frequencies(first))
        IN  /\ \A v \in 0..(n - 2) :
                 SumProxy_get_range(proxy, first, second, v)[2]
                    = SumProxy_get_range(proxy, first, second, v + 1)[1]
            /\ SumProxy_get_range(proxy, first, second, 0)[1] = 0
            /\ SumProxy_get_range(proxy, first, second, n - 1)[2]
                  = SumProxy_get_denominator(proxy, first, second)

-----------------------------------------------------------------------------
(* The range codec consumed by the byte adapters (super::Encoder and       *)
(* super::Decoder). A faithful codec hands the decoder, for each coded     *)
(* symbol, an offset inside the interval the encoder was given, scaled to  *)
(* the denominator the encoder used; with a different denominator on the   *)
(* decoding side the offset is anywhere below that denominator.            *)

\* 256 literal byte values; the terminator is symbol SYMBOL_TOTAL
SYMBOL_TOTAL == 256

\* the codec-defined threshold; the adapters use a quarter of it
RANGE_DEFAULT_THRESHOLD == 2^14

\* values tried for the codec-defined threshold: the default, and a small
\* one with which a few bytes are enough to make the adapters rescale
RangeThresholds == {RANGE_DEFAULT_THRESHOLD, 1040}

\* encode(value, model): the interval of value and the denominator
Encoder_encode(w, value, m) ==
    LET r == get_range(m, value)
    IN  Append(w, [lo |-> r[1], hi |-> r[2], total |-> get_denominator(m)])

\* decode(model): the offsets the codec can present to find_value
Decoder_offsets(c, m) ==
    IF get_denominator(m) = c.total
    THEN c.lo..(c.hi - 1)
    ELSE 0..(get_denominator(m) - 1)

-----------------------------------------------------------------------------
(* ByteEncoder and ByteDecoder *)

\* Model::new_flat(num_values, threshold) when no downscale is needed
new_flat(num_values, threshold) ==
    MkModel(num_values, [i \in 1..num_values |-> 1], threshold, 1)

\* let freq_max = super::RANGE_DEFAULT_THRESHOLD >> 2;
\* Model::new_flat(super::SYMBOL_TOTAL+1, freq_max)
AdapterModel(range_threshold) == new_flat(SYMBOL_TOTAL + 1, Shr(range_threshold, 2))

\* self.freq.update(value, 10, 1) in write
EncoderAdapt(m, value) == update(m, value, 10, 1, TRUE)

\* DecoderAdapt with another constant increment than the encoder's
DecoderAdapt_Const2(m, value) == update(m, value, 10, 2, TRUE)

\* self.freq.update(value, 10, 1) in read
DecoderAdapt(m, value) == update(m, value, 10, 1, TRUE)

\* write's loop with update(value, 10, 1) made before the encode call
RECURSIVE WriteLoop_AdaptFirst(_, _, _, _)
WriteLoop_AdaptFirst(e, buf, i, fail_at) ==
    IF i = Len(buf)
    THEN [e EXCEPT !.ret = [called |-> TRUE, ok |-> TRUE, n |-> Len(buf),
                            len |-> Len(buf), buf |-> buf, at |-> -1, calls |-> i]]
    ELSE LET value == buf[i + 1]
             u     == EncoderAdapt(e.freq, value)
         IN  IF ~u.ok
             THEN [e EXCEPT !.panic = TRUE]
             ELSE IF i = fail_at
             THEN [e EXCEPT !.freq = u.m,
                            !.hist = Append(e.hist, u.m),
                            !.ret = [called |-> TRUE, ok |-> FALSE, n |-> 0,
                                     len |-> Len(buf), buf |-> buf, at |-> i,
                                     calls |-> i + 1]]
             ELSE WriteLoop_AdaptFirst(
                      [e EXCEPT !.wire = Encoder_encode(e.wire, value, u.m),
                                !.freq = u.m,
                                !.done = Append(e.done, value),
                                !.hist = Append(e.hist, u.m)],
                      buf, i + 1, fail_at)

\* write's loop from index i on; fail_at is the index of the byte whose encode
\* fails, -1 when none does. e = [freq, wire, hist, done, ret, panic]
RECURSIVE WriteLoop(_, _, _, _)
WriteLoop(e, buf, i, fail_at) ==
    IF i = Len(buf)
    THEN [e EXCEPT !.ret = [called |-> TRUE, ok |-> TRUE, n |-> Len(buf),
                            len |-> Len(buf), buf |-> buf, at |-> -1, calls |-> i]]
    ELSE IF i = fail_at
    THEN [e EXCEPT !.ret = [called |-> TRUE, ok |-> FALSE, n |-> 0,
                            len |-> Len(buf), buf |-> buf, at |-> i,
                            calls |-> i + 1]]
    ELSE LET value == buf[i + 1]
             u     == EncoderAdapt(e.freq, value)
         IN  IF ~u.ok
             THEN [e EXCEPT !.panic = TRUE,
                            !.wire = Encoder_encode(e.wire, value, e.freq)]
             ELSE WriteLoop([e EXCEPT !.wire = Encoder_encode(e.wire, value, e.freq),
                                      !.freq = u.m,
                                      !.done = Append(e.done, value),
                                      !.hist = Append(e.hist, u.m)],
                            buf, i + 1, fail_at)

ByteEncoder_write(freq, w, hist, buf, fail_at) ==
    WriteLoop([freq |-> freq, wire |-> w, hist |-> hist, done |-> <<>>,
               ret |-> NoWrite, panic |-> FALSE], buf, 0, fail_at)

\* ret.or(r2) in place of ret.and(r2): an error only when both are
ResultAnd_Or(err, err2) == err /\ err2

\* ret.and(r2): an error when either is one
ResultAnd(err, err2) == err \/ err2

\* finish: encode the terminator, finish the codec, combine the results
ByteEncoder_finish(freq, w, encode_fails, finish_fails) ==
    [wire |-> IF encode_fails THEN w ELSE Encoder_encode(w, SYMBOL_TOTAL, freq),
     ret  |-> [called |-> TRUE,
               encode_calls |-> 1, encode_err |-> encode_fails,
               finish_calls |-> 1, finish_err |-> finish_fails,
               err |-> ResultAnd(encode_fails, finish_fails)]]

\* read's loop with update(value, 10, 1) made before the terminator test
RECURSIVE ReadLoop_AdaptFirst(_, _, _)
ReadLoop_AdaptFirst(d, w, fail_at) ==
    IF d.amount = Len(d.dst) THEN {d}
    ELSE IF d.amount = fail_at \/ d.rpos > Len(w)
    THEN {[d EXCEPT !.err = TRUE, !.calls = @ + 1]}
    ELSE UNION {
        LET f == find_value(d.freq, offset)
            u == DecoderAdapt(d.freq, f.value)
        IN  IF ~f.ok \/ ~u.ok
            THEN {[d EXCEPT !.panic = TRUE, !.calls = @ + 1]}
            ELSE IF f.value = SYMBOL_TOTAL
            THEN {[d EXCEPT !.freq = u.m, !.is_eof = TRUE, !.sets = @ + 1,
                            !.rpos = @ + 1, !.calls = @ + 1]}
            ELSE ReadLoop_AdaptFirst([d EXCEPT !.freq = u.m,
                                               !.dst[d.amount + 1] = f.value % 256,
                                               !.amount = @ + 1,
                                               !.rpos = @ + 1,
                                               !.calls = @ + 1,
                                               !.done = Append(@, f.value % 256)],
                                     w, fail_at)
        : offset \in Decoder_offsets(w[d.rpos], d.freq) }

\* read's loop. d = [freq, is_eof, rpos, dst, amount, calls, done, err, panic,
\* sets]; the result is the set of ways the call can end, one for each way the
\* codec can choose its offsets.
RECURSIVE ReadLoop(_, _, _)
ReadLoop(d, w, fail_at) ==
    IF d.amount = Len(d.dst) THEN {d}
    ELSE IF d.amount = fail_at \/ d.rpos > Len(w)
    THEN {[d EXCEPT !.err = TRUE, !.calls = @ + 1]}
    ELSE UNION {
        LET f == find_value(d.freq, offset)
            u == DecoderAdapt(d.freq, f.value)
        IN  IF ~f.ok
            THEN {[d EXCEPT !.panic = TRUE, !.calls = @ + 1]}
            ELSE IF f.value = SYMBOL_TOTAL
            THEN {[d EXCEPT !.is_eof = TRUE, !.sets = @ + 1, !.rpos = @ + 1,
                            !.calls = @ + 1]}
            ELSE IF ~u.ok
            THEN {[d EXCEPT !.panic = TRUE, !.calls = @ + 1]}
            ELSE ReadLoop([d EXCEPT !.freq = u.m,
                                    !.dst[d.amount + 1] = f.value % 256,
                                    !.amount = @ + 1,
                                    !.rpos = @ + 1,
                                    !.calls = @ + 1,
                                    !.done = Append(@, f.value % 256)],
                          w, fail_at)
        : offset \in Decoder_offsets(w[d.rpos], d.freq) }

\* ByteDecoder_read without the early return on is_eof
ByteDecoder_read_NoEofCheck(freq, eof, pos, w, dst, fail_at) ==
    ReadLoop([freq |-> freq, is_eof |-> eof, rpos |-> pos, dst |-> dst, amount |-> 0,
              calls |-> 0, done |-> <<>>, err |-> FALSE, panic |-> FALSE, sets |-> 0],
             w, fail_at)

\* read that, when a decode call fails, puts the Model back as the call
\* found it
ByteDecoder_read_Rollback(freq, eof, pos, w, dst, fail_at) ==
    LET d == [freq |-> freq, is_eof |-> eof, rpos |-> pos, dst |-> dst, amount |-> 0,
              calls |-> 0, done |-> <<>>, err |-> FALSE, panic |-> FALSE, sets |-> 0]
    IN  IF eof THEN {d}
        ELSE {IF o.err THEN [o EXCEPT !.freq = freq] ELSE o :
                 o \in ReadLoop(d, w, fail_at)}

\* read: Ok(0) at once when is_eof, the loop otherwise
ByteDecoder_read(freq, eof, pos, w, dst, fail_at) ==
    LET d == [freq |-> freq, is_eof |-> eof, rpos |-> pos, dst |-> dst, amount |-> 0,
              calls |-> 0, done |-> <<>>, err |-> FALSE, panic |-> FALSE, sets |-> 0]
    IN  IF eof THEN {d} ELSE ReadLoop(d, w, fail_at)

-----------------------------------------------------------------------------
(* SpecByte: a fresh ByteEncoder is written to and finished, then a fresh  *)
(* ByteDecoder reads what it produced. SpecEnc: the ByteEncoder alone,     *)
(* with failures of the range codec.                                       *)

MaxLen == 3
MaxBuf == 2

ByteSet == {0, 42, 255}

\* what a destination buffer holds before read stores into it
Stale == -1

Buffers == UNION {[1..n -> ByteSet] : n \in 0..MaxBuf}

\* ByteEncoder::new and ByteDecoder::new
InitByte ==
    /\ ModelIdle
    /\ ProxyIdle
    /\ \E range_threshold \in RangeThresholds :
         /\ enc_freq = AdapterModel(range_threshold)
         /\ dec_freq = AdapterModel(range_threshold)
    /\ enc_state = "open"
    /\ wire = <<>>
    /\ written = <<>>
    /\ enc_hist = <<enc_freq>>
    /\ write_ret = NoWrite
    /\ finish_ret = NoFinish
    /\ is_eof = FALSE
    /\ dec_state = "open"
    /\ rpos = 1
    /\ decoded = <<>>
    /\ output = <<>>
    /\ read_ret = NoRead
    /\ eof_sets = 0

Write(buf, fail_at) ==
    /\ enc_state = "open"
    /\ Len(written) + Len(buf) <= MaxLen
    /\ LET e == ByteEncoder_write(enc_freq, wire, enc_hist, buf, fail_at)
       IN  /\ enc_freq' = e.freq
           /\ wire' = e.wire
           /\ enc_hist' = e.hist
           /\ written' = written \o e.done
           /\ write_ret' = e.ret
           /\ enc_state' = IF e.panic THEN "panic" ELSE "open"
    /\ UNCHANGED finish_ret
    /\ UNCHANGED <<modelVars, proxyVars, decVars>>

Finish(encode_fails, finish_fails) ==
    /\ enc_state = "open"
    /\ LET f == ByteEncoder_finish(enc_freq, wire, encode_fails, finish_fails)
       IN  /\ wire' = f.wire
           /\ finish_ret' = f.ret
    /\ enc_state' = "finished"
    /\ write_ret' = NoWrite
    /\ UNCHANGED <<enc_freq, written, enc_hist>>
    /\ UNCHANGED <<modelVars, proxyVars, decVars>>

Read(len, fail_at) ==
    /\ enc_state = "finished"
    /\ dec_state = "open"
    /\ \E d \in ByteDecoder_read(dec_freq, is_eof, rpos, wire,
                                 [i \in 1..len |-> Stale], fail_at) :
         /\ dec_freq' = d.freq
         /\ is_eof' = d.is_eof
         /\ rpos' = d.rpos
         /\ decoded' = decoded \o d.done
         /\ dec_state' = IF d.panic THEN "panic" ELSE "open"
         /\ output' = IF d.err \/ d.panic THEN output
                      ELSE output \o SubSeq(d.dst, 1, d.amount)
         /\ read_ret' = [called |-> TRUE, eof_before |-> is_eof, len |-> len,
                         ok |-> ~d.err /\ ~d.panic, n |-> IF d.err THEN 0 ELSE d.amount,
                         calls |-> d.calls, dst |-> d.dst]
         /\ eof_sets' = eof_sets + d.sets
    /\ UNCHANGED <<modelVars, proxyVars, encVars>>

\* the range codec never fails a call
NextByte ==
    \/ \E buf \in Buffers : Write(buf, -1)
    \/ Finish(FALSE, FALSE)
    \/ \E len \in 0..MaxBuf : Read(len, -1)

SpecByte == InitByte /\ [][NextByte]_vars

\* the encoder alone, over a range codec that can fail any call
NextEnc ==
    \/ \E buf \in Buffers, fail_at \in -1..(MaxBuf - 1) :
          fail_at < Len(buf) /\ Write(buf, fail_at)
    \/ \E encode_fails \in BOOLEAN, finish_fails \in BOOLEAN :
          Finish(encode_fails, finish_fails)

SpecEnc == InitByte /\ [][NextEnc]_vars

\* encoder and decoder over a range codec whose decode calls can fail; the
\* bytes written are the lowest and the highest one
DecBuffers == UNION {[1..n -> {0, 255}] : n \in 0..MaxBuf}

NextDec ==
    \/ \E buf \in DecBuffers : Write(buf, -1)
    \/ Finish(FALSE, FALSE)
    \/ \E len \in 0..MaxBuf, fail_at \in -1..(MaxBuf - 1) :
          fail_at < len /\ Read(len, fail_at)

SpecDec == InitByte /\ [][NextDec]_vars

-----------------------------------------------------------------------------
(* Properties of the byte adapters *)

IsPrefix(a, b) == Len(a) <= Len(b) /\ a = SubSeq(b, 1, Len(a))

\* the interval and denominator the codec is given for value under Model m
Coded(m, value) ==
    [lo |-> get_range(m, value)[1], hi |-> get_range(m, value)[2],
     total |-> get_denominator(m)]

\* C1: round trip over a range codec that never fails. What the reads report
\* is a prefix of the bytes written, in order; a read stops short of its
\* buffer exactly when it meets the end of the stream, where it sets is_eof,
\* once, with everything written reported; a read after that returns 0.
C1_RoundTrip ==
    /\ enc_state # "panic"
    /\ dec_state # "panic"
    /\ IsPrefix(output, written)
    /\ decoded = output
    /\ eof_sets <= 1
    /\ is_eof <=> eof_sets = 1
    /\ is_eof => output = written
    /\ read_ret.called =>
        /\ read_ret.ok
        /\ read_ret.n <= Len(output)
        /\ SubSeq(read_ret.dst, 1, read_ret.n)
              = SubSeq(output, Len(output) - read_ret.n + 1, Len(output))
        /\ read_ret.eof_before => read_ret.n = 0
        /\ ~read_ret.eof_before =>
              /\ read_ret.n = Min(read_ret.len,
                                  Len(written) - (Len(output) - read_ret.n))
              /\ is_eof <=> read_ret.n < read_ret.len

\* C1 witness: [0, 255, 42] written (the Model rescaled on the way), read
\* back in full, and one more read made after the end of the stream
C1_Witness ==
    /\ written = <<0, 255, 42>>
    /\ enc_freq.total < SYMBOL_TOTAL + 1 + Len(written)
    /\ is_eof
    /\ output = written
    /\ read_ret.eof_before
    /\ read_ret.n = 0

\* C7: lockstep adaptation. After k bytes the decoder's Model is the Model
\* the encoder had after k bytes; every symbol is coded against the Model as
\* it was before adapting for it, the adaptation is update(value, 10, 1) on
\* both sides, and neither side adapts for the terminator.
C7_Lockstep ==
    /\ Len(enc_hist) = Len(written) + 1
    /\ enc_freq = enc_hist[Len(enc_hist)]
    /\ \A k \in 1..Len(written) :
          /\ wire[k] = Coded(enc_hist[k], written[k])
          /\ enc_hist[k + 1] = update(enc_hist[k], written[k], 10, 1, TRUE).m
    /\ enc_state = "finished" =>
          /\ Len(wire) = Len(written) + 1
          /\ wire[Len(wire)] = Coded(enc_hist[Len(enc_hist)], SYMBOL_TOTAL)
    /\ IsPrefix(decoded, written)
    /\ dec_freq = enc_hist[Len(decoded) + 1]

\* C7 witness: the decoder is part way through a stream, with a Model that
\* differs from the fresh one and from the encoder's final one
C7_Witness ==
    /\ Len(written) >= 2
    /\ Len(decoded) = 1
    /\ dec_freq # enc_hist[1]
    /\ dec_freq # enc_freq

\* C8: idempotent end of stream. Once is_eof is set it stays set, and a read
\* made then returns Ok(0) without a decode call and without changing the
\* Model, the codec position or the destination buffer.
C8_IdempotentEof ==
    [][ /\ is_eof => (is_eof' /\ dec_freq' = dec_freq /\ rpos' = rpos
                        /\ decoded' = decoded /\ output' = output)
        /\ (read_ret'.called /\ read_ret'.eof_before) =>
              /\ read_ret'.ok
              /\ read_ret'.n = 0
              /\ read_ret'.calls = 0
              /\ read_ret'.dst = [i \in 1..read_ret'.len |-> Stale] ]_vars

\* C8 witness: a read into a non-empty buffer made after the end of stream
C8_Witness ==
    /\ is_eof
    /\ read_ret.eof_before
    /\ read_ret.len > 0

\* C9: finish encodes the terminator once, against the current Model, then
\* finishes the range codec whether or not that encode failed, and returns
\* an error exactly when one of the two calls failed.
C9_Finish ==
    /\ ~finish_ret.called => (enc_state # "finished" /\ Len(wire) = Len(written))
    /\ finish_ret.called =>
          /\ enc_state = "finished"
          /\ finish_ret.encode_calls = 1
          /\ finish_ret.finish_calls = 1
          /\ finish_ret.err <=> (finish_ret.encode_err \/ finish_ret.finish_err)
          /\ enc_freq = enc_hist[Len(enc_hist)]
          /\ IF finish_ret.encode_err
             THEN Len(wire) = Len(written)
             ELSE /\ Len(wire) = Len(written) + 1
                  /\ wire[Len(wire)] = Coded(enc_freq, SYMBOL_TOTAL)

\* C9 witness: the terminator's encode failed, the codec was finished all
\* the same and did not fail, and finish returned an error
C9_Witness ==
    /\ finish_ret.called
    /\ finish_ret.encode_err
    /\ ~finish_ret.finish_err
    /\ finish_ret.finish_calls = 1
    /\ finish_ret.err
    /\ Len(written) > 0

\* the Model after update(value, 10, 1) for each byte of bytes, in order
RECURSIVE AdaptedFor(_, _)
AdaptedFor(m, bytes) ==
    IF bytes = <<>> THEN m
    ELSE AdaptedFor(update(m, Head(bytes), 10, 1, TRUE).m, Tail(bytes))

\* C15: write and a failing encode. If encode fails on the byte at index i,
\* write returns that error at once: encode was called i + 1 times, the
\* Model is adapted for the bytes 0..i-1 and not for byte i, and what the
\* codec was given for the bytes before i stays given. When no encode fails
\* write returns Ok(buf.len()) with every byte encoded and adapted for.
C15_WriteError ==
    [][(enc_state = "open" /\ write_ret'.called) =>
          LET r == write_ret'
              k == IF r.ok THEN Len(r.buf) ELSE r.at
          IN  /\ r.ok <=> r.at = -1
              /\ r.ok => r.n = Len(r.buf)
              /\ ~r.ok => r.at \in 0..(Len(r.buf) - 1)
              /\ r.calls = IF r.ok THEN Len(r.buf) ELSE r.at + 1
              /\ written' = written \o SubSeq(r.buf, 1, k)
              /\ IsPrefix(wire, wire')
              /\ Len(wire') = Len(wire) + k
              /\ \A j \in 1..k :
                     wire'[Len(wire) + j] =
                        Coded(AdaptedFor(enc_freq, SubSeq(r.buf, 1, j - 1)), r.buf[j])
              /\ enc_freq' = AdaptedFor(enc_freq, SubSeq(r.buf, 1, k))
              /\ enc_state' = "open" ]_vars

\* a write has failed on its second byte, after an earlier write succeeded
C15_Witness ==
    /\ enc_state = "open"
    /\ write_ret.called
    /\ ~write_ret.ok
    /\ write_ret.at = 1
    /\ Len(written) = 2
    /\ Len(wire) = 2

\* C16: read and the terminator. A read that decodes the terminator after
\* storing k bytes, 0 <= k <= len - 1, sets is_eof, makes no further decode
\* call, leaves the rest of the buffer as it was, does not adapt the Model
\* for the terminator, and returns Ok(k). A read whose buffer fills before
\* the terminator returns Ok(len) and leaves is_eof false.
C16_Terminator ==
    [][(enc_state = "finished" /\ dec_state = "open" /\ ~is_eof) =>
          LET r == read_ret'
              k == Len(decoded') - Len(decoded)
          IN  /\ r.called /\ r.ok /\ ~r.eof_before
              /\ r.n = k
              /\ decoded' = decoded \o SubSeq(r.dst, 1, k)
              /\ dec_freq' = AdaptedFor(dec_freq, SubSeq(r.dst, 1, k))
              /\ IF is_eof'
                 THEN /\ k \in 0..(r.len - 1)
                      /\ r.calls = k + 1
                      /\ rpos' = rpos + k + 1
                      /\ wire[rpos + k] = Coded(dec_freq', SYMBOL_TOTAL)
                      /\ \A j \in (k + 1)..r.len : r.dst[j] = Stale
                      /\ eof_sets' = eof_sets + 1
                 ELSE /\ k = r.len
                      /\ r.calls = r.len
                      /\ rpos' = rpos + r.len
                      /\ eof_sets' = eof_sets ]_vars

\* a read into a buffer of two bytes has stored one byte and met the terminator
C16_Witness ==
    /\ is_eof
    /\ read_ret.called
    /\ ~read_ret.eof_before
    /\ read_ret.ok
    /\ read_ret.len = 2
    /\ read_ret.n = 1
    /\ read_ret.dst[2] = Stale

\* the number of bytes a read stored into its buffer
Stored(dst) == Cardinality({j \in 1..Len(dst) : dst[j] # Stale})

\* C18: read and a failing decode. If a decode call fails after k >= 0 bytes
\* were decoded in the same read, the read returns the error and not k: the k
\* bytes are in the buffer, is_eof stays false, and nothing is reported. Every
\* read leaves the Model adapted for all the bytes it decoded, so a later
\* read goes on from the adapted Model; and the bytes decoded but not
\* reported are never made up for.
C18_ReadError ==
    [][/\ (/\ enc_state = "finished" /\ dec_state = "open" /\ ~is_eof
           /\ read_ret'.called /\ ~read_ret'.ok /\ dec_state' = "open") =>
              LET r == read_ret'
                  k == Stored(r.dst)
              IN  /\ r.n = 0
                  /\ r.calls = k + 1
                  /\ \A j \in 1..r.len : r.dst[j] # Stale <=> j <= k
                  /\ decoded' = decoded \o SubSeq(r.dst, 1, k)
                  /\ ~is_eof'
                  /\ output' = output
       /\ IsPrefix(decoded, decoded')
       /\ dec_freq' = AdaptedFor(dec_freq,
                                 SubSeq(decoded', Len(decoded) + 1, Len(decoded')))
       /\ Len(decoded') - Len(output') >= Len(decoded) - Len(output) ]_vars

\* a read has failed after storing one byte, and a later read has returned
\* the byte that follows it
C18_Witness ==
    /\ dec_state = "open"
    /\ read_ret.called
    /\ read_ret.ok
    /\ read_ret.n = 1
    /\ Len(decoded) = 2
    /\ Len(output) = 1
    /\ output = <<written[2]>>
    /\ written[1] # written[2]

-----------------------------------------------------------------------------
(* SpecAdapt: the Model of a byte adapter alone, adapted for a long stream *)
(* of bytes. The stream is made of runs of RunLen equal bytes.             *)

MaxBytes == 4000
RunLen == 1000

\* the bytes a run can be made of
AdaptBytes == {0, 255}

\* cut_threshold: the lowest and the highest of 4 * alphabet .. 2^15, and
\* the one the adapters are built with
AdapterThresholds ==
    {4 * (SYMBOL_TOTAL + 1), Shr(RANGE_DEFAULT_THRESHOLD, 2), 2^15}

\* self.freq.update(value, 10, 1) with no dependence on total: add_log = 0
AdapterUpdate_Log0(m, value, checks) == update(m, value, 0, 1, checks)

\* self.freq.update(value, 10, 1)
AdapterUpdate(m, value, checks) == update(m, value, 10, 1, checks)

\* Model::new_flat(super::SYMBOL_TOTAL+1, freq_max)
InitAdapt ==
    /\ ProxyIdle
    /\ ByteIdle
    /\ \E threshold \in AdapterThresholds :
          model = new_flat(SYMBOL_TOTAL + 1, threshold)
    /\ pc = "ready"
    /\ overflow_checks \in BOOLEAN
    /\ ever = NonZero(model.table)
    /\ steps = 0
    /\ ret = NoRet

\* one byte of write or read: the Model is adapted for it; cut tells whether
\* update took its downscale branch
AdaptByte(value) ==
    /\ pc = "ready"
    /\ steps < MaxBytes
    /\ steps % RunLen # 0 => value = ret.arg
    /\ LET u == AdapterUpdate(model, value, overflow_checks)
       IN  /\ model' = u.m
           /\ pc' = IF u.ok THEN "ready" ELSE "panic"
           /\ ret' = [op |-> "update", arg |-> value, val |-> <<10, 1>>,
                      why |-> u.why,
                      cut |-> model.total + Shr(model.total, 10) + 1
                                 >= model.cut_threshold]
    /\ ever' = ever \cup NonZero(model'.table)
    /\ steps' = steps + 1
    /\ UNCHANGED overflow_checks
    /\ UNCHANGED <<proxyVars, byteVars>>

NextAdapt == \E value \in AdaptBytes : AdaptByte(value)

SpecAdapt == InitAdapt /\ [][NextAdapt]_vars

\* C19: parameter safety of the adapters' Model. Started flat over 257
\* symbols and adapted with update(value, 10, 1) under a cut_threshold from
\* 4 * 257 to 2^15, no stream of bytes makes update fail its guard or the
\* assertion after its downscale, and no table entry reaches 2^16: no
\* addition wraps or is caught overflowing, so total stays the sum of the
\* table, below cut_threshold.
C19_AdapterSafe ==
    /\ pc = "ready"
    /\ ret.why = "none"
    /\ model.total < model.cut_threshold
    /\ model.total = SumTable(model.table)
    /\ \A i \in 1..Len(model.table) :
          model.table[i] >= 1 /\ model.table[i] < model.cut_threshold

\* under the highest threshold an update has downscaled a Model that one
\* byte value had all the weight of
C19_Witness ==
    /\ pc = "ready"
    /\ ret.op = "update"
    /\ ret.cut
    /\ model.cut_threshold = 2^15
    /\ model.table[1] > 2^13
    /\ model.table[256] = 1

====
